---- MODULE Spec2Model ----
(***************************************************************************)
(* Model of the voting application: the vote service (src/vote/index.js),  *)
(* the results service (src/results/index.js) and the votes table they     *)
(* share.  Every HTTP handler is split at its awaits: the part that runs   *)
(* when the request arrives, and one step per SQL statement, which the     *)
(* database executes atomically and whose continuation answers.            *)
(* Spec runs the requests of both services, SpecHealth the liveness checks *)
(* and their pools, SpecAll runs both together.  The voted_at column is    *)
(* left out: no handler reads it.                                          *)
(***************************************************************************)
EXTENDS Integers, Sequences, FiniteSets

(* ------------------------------ bounds -------------------------------- *)

\* Largest identifier the SERIAL sequence hands out in a run.
MaxId == 3
\* Largest number of POST /vote requests awaiting their INSERT at once.
MaxInFlight == 2
\* Size of each service's connection pool (pg's default is larger).
PoolMax == 1

(* --------------------------- configuration ---------------------------- *)

OPTION_A == "cats"
OPTION_B == "dogs"

Options == {OPTION_A, OPTION_B}

Services == {"vote", "results"}

\* The request bodies POST /vote is driven with: each configured option, a
\* missing field, an empty field, a wrong-case spelling and another word.
Bodies ==
  {[has |-> TRUE, option |-> o] :
     o \in {OPTION_A, OPTION_B, "", "CATS", "birds"}}
    \cup {[has |-> FALSE, option |-> ""]}

\* The strings a body can carry as its option.
Strings == {b.option : b \in Bodies}

(* ------------------------------- state -------------------------------- *)

VARIABLES
  dbUp,         \* the database answers
  tableExists,  \* the votes table has been created
  rows,         \* the votes table, in insertion order: <<[id, option]>>
  nextId,       \* next value of the id column's sequence
  cleared,      \* a DELETE succeeded and no INSERT has succeeded since
  accepted,     \* POST /vote requests redirected since the last DELETE
  usedIds,      \* every id a row was ever stored with
  voteSvc,      \* the vote process: starting, migrating, listening, exited
  pool,         \* per service, the pool clients checked out
  pendingVotes, \* per option, POST /vote requests awaiting their INSERT
  pendingDelete,\* POST /delete-all requests awaiting their DELETE
  reader,       \* the results read (GET / or GET /api/results) in flight
  hz,           \* per service, the GET /healthz in flight
  resp          \* the response the last step sent, NoResp when it sent none

vars == <<dbUp, tableExists, rows, nextId, cleared, accepted, usedIds,
          voteSvc, pool, pendingVotes, pendingDelete, reader, hz, resp>>

\* The votes table and its id sequence.
store == <<tableExists, rows, nextId>>

(* ------------------------------ helpers ------------------------------- *)

\* JavaScript truthiness of req.body.option: undefined and "" are falsy.
Truthy(body) == body.has /\ body.option # ""

\* A test that only asks for a non-empty option.
IsValidOptionAnyWord(body) == Truthy(body)

\* The test of POST /vote, negated: the option is accepted.
IsValidOption(body) ==
  ~(~Truthy(body) \/ (body.option # OPTION_A /\ body.option # OPTION_B))

\* A formatting that cuts the digits off instead of rounding.
ToFixedTruncating(num, den, digits) ==
  LET scale == IF digits = 1 THEN 10 ELSE 100
  IN  (num * scale) \div den

\* Number.prototype.toFixed(digits) of num/den, as an integer count of
\* 10^-digits units: the nearest one, the larger of two equally near.
ToFixed(num, den, digits) ==
  LET scale == IF digits = 1 THEN 10 ELSE 100
  IN  (2 * num * scale + den) \div (2 * den)

\* Math.max(...counts, 1) over the counts of a result.
MaxVotes(result) ==
  LET counts == {result[i].count : i \in 1..Len(result)} \cup {1}
  IN  CHOOSE m \in counts : \A c \in counts : c <= m

\* SELECT option, COUNT(*) ... GROUP BY option: one group per stored option.
Groups(t) ==
  {[option |-> o, count |-> Cardinality({i \in 1..Len(t) : t[i].option = o})] :
     o \in {t[i].option : i \in 1..Len(t)}}

\* ... ORDER BY count DESC: every order of the groups with non-increasing
\* counts; the database is free in the order of equal counts.
Aggregate(t) ==
  LET G == Groups(t)
  IN  {s \in [1..Cardinality(G) -> G] :
         /\ \A i, j \in 1..Cardinality(G) : i # j => s[i] # s[j]
         /\ \A i, j \in 1..Cardinality(G) : i < j => s[i].count >= s[j].count}

\* SELECT COUNT(*) as total FROM votes, through parseInt.
Total(t) == Len(t)

\* A statement on the votes table succeeds when the database answers and the
\* table is there.
StatementOk == dbUp /\ tableExists

\* pool.query and pool.connect wait until the pool can give a client out.
ClientFree(svc) == pool[svc] < PoolMax

RECURSIVE SumOver(_, _)
SumOver(f, S) ==
  IF S = {} THEN 0
  ELSE LET x == CHOOSE y \in S : TRUE IN f[x] + SumOver(f, S \ {x})

\* The POST /vote requests whose INSERT is outstanding.
InFlightVotes == SumOver(pendingVotes, Strings)

(* ------------------------------ requests ------------------------------ *)

\* A results read: where it stands (idle, agg: before its GROUP BY statement,
\* total: before its COUNT statement), which endpoint it is, the ?deleted
\* flag, the rows of the GROUP BY statement; and two notes the claims use:
\* dirty, a write succeeded since the GROUP BY statement; fresh, the read
\* arrived after a DELETE and no INSERT has succeeded since that DELETE.
IdleReader ==
  [pc |-> "idle", kind |-> "none", deleted |-> FALSE, result |-> <<>>,
   dirty |-> FALSE, fresh |-> FALSE]

\* A write to the table reaches the read in flight.
Written(r) ==
  IF r.pc = "idle" THEN r
  ELSE [r EXCEPT !.dirty = (r.pc = "total"), !.fresh = FALSE]

(* ----------------------------- responses ------------------------------ *)

\* A response: what is sent (status, redirect location, body) and req, the
\* results read it answers as that read stood (IdleReader for the others).
NoResp ==
  [svc |-> "none", route |-> "none", status |-> 0, location |-> "", text |-> "",
   banner |-> FALSE, empty |-> FALSE, total |-> 0, results |-> <<>>,
   req |-> IdleReader]

Reply(svc, route, status, text) ==
  [NoResp EXCEPT !.svc = svc, !.route = route, !.status = status, !.text = text]

\* res.redirect(location): express answers 302 Found.
Redirect(svc, route, location) ==
  [NoResp EXCEPT !.svc = svc, !.route = route, !.status = 302,
                 !.location = location]

\* The entries of the JSON results, lines 335-340.
ApiResults(result, total) ==
  [i \in 1..Len(result) |->
     [option |-> result[i].option,
      count |-> result[i].count,
      percentage |-> IF total > 0
                       THEN ToFixed(result[i].count * 100, total, 2)
                       ELSE 0]]

\* The result items of the HTML view, lines 252-273: percentage in tenths,
\* the bar width as the fraction barNum / barDen.
HtmlItems(result, total) ==
  [i \in 1..Len(result) |->
     [option |-> result[i].option,
      count |-> result[i].count,
      percentage |-> IF total > 0
                       THEN ToFixed(result[i].count * 100, total, 1)
                       ELSE 0,
      barNum |-> IF total > 0 THEN result[i].count * 100 ELSE 0,
      barDen |-> MaxVotes(result)]]

ApiReply(r, total) ==
  [Reply("results", "GET /api/results", 200, "json") EXCEPT
     !.total = total, !.results = ApiResults(r.result, total), !.req = r]

\* total === 0 shows the empty-state block instead of the items.
HtmlReply(r, total) ==
  [Reply("results", "GET /", 200, "html") EXCEPT
     !.total = total, !.banner = r.deleted, !.empty = (total = 0),
     !.results = IF total = 0 THEN <<>> ELSE HtmlItems(r.result, total),
     !.req = r]

(* ------------------------------- Init --------------------------------- *)

Init ==
  /\ dbUp = TRUE
  /\ tableExists = FALSE
  /\ rows = <<>>
  /\ nextId = 1
  /\ cleared = FALSE
  /\ accepted = 0
  /\ usedIds = {}
  /\ voteSvc = "starting"
  /\ pool = [s \in Services |-> 0]
  /\ pendingVotes = [o \in Strings |-> 0]
  /\ pendingDelete = FALSE
  /\ reader = IdleReader
  /\ hz = [s \in Services |-> "idle"]
  /\ resp = NoResp

(* --------------------------- the database ----------------------------- *)

\* The database goes away and comes back.
DbOutage ==
  /\ dbUp
  /\ dbUp' = FALSE
  /\ resp' = NoResp
  /\ UNCHANGED <<tableExists, rows, nextId, cleared, accepted, usedIds,
                 voteSvc, pool, pendingVotes, pendingDelete, reader, hz>>

DbRecover ==
  /\ ~dbUp
  /\ dbUp' = TRUE
  /\ resp' = NoResp
  /\ UNCHANGED <<tableExists, rows, nextId, cleared, accepted, usedIds,
                 voteSvc, pool, pendingVotes, pendingDelete, reader, hz>>

(* --------------------------- vote service ----------------------------- *)

\* start() calls runMigrations(); its pool.connect() is outside the try: a
\* rejection reaches start()'s catch, which exits the process.
MigrationConnect ==
  /\ voteSvc = "starting"
  /\ IF dbUp
       THEN /\ voteSvc' = "migrating"
            /\ pool' = [pool EXCEPT !["vote"] = @ + 1]
       ELSE /\ voteSvc' = "exited"
            /\ UNCHANGED pool
  /\ resp' = NoResp
  /\ UNCHANGED <<dbUp, tableExists, rows, nextId, cleared, accepted, usedIds,
                 pendingVotes, pendingDelete, reader, hz>>

\* A catch without its throw: start() goes on to app.listen after a failure.
MigrationQuerySwallowed ==
  /\ voteSvc = "migrating"
  /\ pool' = [pool EXCEPT !["vote"] = @ - 1]
  /\ voteSvc' = "listening"
  /\ tableExists' = (tableExists \/ dbUp)
  /\ resp' = NoResp
  /\ UNCHANGED <<dbUp, rows, nextId, cleared, accepted, usedIds, pendingVotes,
                 pendingDelete, reader, hz>>

\* A migration that drops the table before it creates it.
MigrationQueryRecreate ==
  /\ voteSvc = "migrating"
  /\ pool' = [pool EXCEPT !["vote"] = @ - 1]
  /\ IF dbUp
       THEN /\ tableExists' = TRUE
            /\ rows' = <<>>
            /\ accepted' = 0
            /\ voteSvc' = "listening"
       ELSE /\ voteSvc' = "exited"
            /\ UNCHANGED <<tableExists, rows, accepted>>
  /\ resp' = NoResp
  /\ UNCHANGED <<dbUp, nextId, cleared, usedIds, pendingVotes, pendingDelete,
                 reader, hz>>

\* CREATE TABLE IF NOT EXISTS votes, then finally client.release(); on
\* success start() goes on to app.listen, on failure to process.exit(1).
MigrationQuery ==
  /\ voteSvc = "migrating"
  /\ pool' = [pool EXCEPT !["vote"] = @ - 1]
  /\ IF dbUp
       THEN /\ tableExists' = TRUE
            /\ voteSvc' = "listening"
       ELSE /\ voteSvc' = "exited"
            /\ UNCHANGED tableExists
  /\ resp' = NoResp
  /\ UNCHANGED <<dbUp, rows, nextId, cleared, accepted, usedIds, pendingVotes,
                 pendingDelete, reader, hz>>

\* The vote process is stopped while it handles no request; its pool goes
\* with it.
VoteStop ==
  /\ voteSvc = "listening"
  /\ InFlightVotes = 0
  /\ hz["vote"] = "idle"
  /\ voteSvc' = "exited"
  /\ pool' = [pool EXCEPT !["vote"] = 0]
  /\ resp' = NoResp
  /\ UNCHANGED <<dbUp, tableExists, rows, nextId, cleared, accepted, usedIds,
                 pendingVotes, pendingDelete, reader, hz>>

\* The vote process is launched again: start() runs on load.
VoteStart ==
  /\ voteSvc = "exited"
  /\ voteSvc' = "starting"
  /\ pool' = [pool EXCEPT !["vote"] = 0]
  /\ resp' = NoResp
  /\ UNCHANGED <<dbUp, tableExists, rows, nextId, cleared, accepted, usedIds,
                 pendingVotes, pendingDelete, reader, hz>>

\* GET / of the vote service: the form, with the banner when ?success=1.
VoteForm(success) ==
  /\ voteSvc = "listening"
  /\ resp' = [Reply("vote", "GET /", 200, "form") EXCEPT !.banner = success]
  /\ UNCHANGED <<dbUp, tableExists, rows, nextId, cleared, accepted, usedIds,
                 voteSvc, pool, pendingVotes, pendingDelete, reader, hz>>

\* POST /vote up to its await: 400 for an option that is not accepted,
\* otherwise the INSERT is handed to the pool.
PostVote(body) ==
  /\ voteSvc = "listening"
  /\ IF ~IsValidOption(body)
       THEN /\ resp' = Reply("vote", "POST /vote", 400, "Invalid option")
            /\ UNCHANGED pendingVotes
       ELSE /\ InFlightVotes < MaxInFlight
            /\ nextId + InFlightVotes <= MaxId
            /\ pendingVotes' = [pendingVotes EXCEPT ![body.option] = @ + 1]
            /\ resp' = NoResp
  /\ UNCHANGED <<dbUp, tableExists, rows, nextId, cleared, accepted, usedIds,
                 voteSvc, pool, pendingDelete, reader, hz>>

\* A handler that runs its INSERT twice.
VoteInsertTwice(option) ==
  /\ pendingVotes[option] > 0
  /\ ClientFree("vote")
  /\ pendingVotes' = [pendingVotes EXCEPT ![option] = @ - 1]
  /\ IF StatementOk
       THEN /\ rows' = rows \o <<[id |-> nextId, option |-> option],
                                 [id |-> nextId + 1, option |-> option]>>
            /\ nextId' = nextId + 2
            /\ cleared' = FALSE
            /\ accepted' = accepted + 1
            /\ usedIds' = usedIds \cup {nextId, nextId + 1}
            /\ reader' = Written(reader)
            /\ resp' = Redirect("vote", "POST /vote", "/?success=1")
       ELSE /\ resp' = Reply("vote", "POST /vote", 500, "Error saving vote")
            /\ UNCHANGED <<rows, nextId, cleared, reader>>
            /\ UNCHANGED <<accepted, usedIds>>
  /\ UNCHANGED <<dbUp, tableExists, voteSvc, pool, pendingDelete, hz>>

\* INSERT INTO votes (option) VALUES ($1) and the continuation of POST /vote:
\* the row gets the sequence's next id; redirect on success, 500 on failure.
VoteInsert(option) ==
  /\ pendingVotes[option] > 0
  /\ ClientFree("vote")
  /\ pendingVotes' = [pendingVotes EXCEPT ![option] = @ - 1]
  /\ IF StatementOk
       THEN /\ rows' = Append(rows, [id |-> nextId, option |-> option])
            /\ nextId' = nextId + 1
            /\ cleared' = FALSE
            /\ accepted' = accepted + 1
            /\ usedIds' = usedIds \cup {nextId}
            /\ reader' = Written(reader)
            /\ resp' = Redirect("vote", "POST /vote", "/?success=1")
       ELSE /\ resp' = Reply("vote", "POST /vote", 500, "Error saving vote")
            /\ UNCHANGED <<rows, nextId, cleared, reader>>
            /\ UNCHANGED <<accepted, usedIds>>
  /\ UNCHANGED <<dbUp, tableExists, voteSvc, pool, pendingDelete, hz>>

(* -------------------------- results service --------------------------- *)

\* POST /delete-all up to its await.
PostDeleteAll ==
  /\ ~pendingDelete
  /\ pendingDelete' = TRUE
  /\ resp' = NoResp
  /\ UNCHANGED <<dbUp, tableExists, rows, nextId, cleared, accepted, usedIds,
                 voteSvc, pool, pendingVotes, reader, hz>>

\* A TRUNCATE ... RESTART IDENTITY in place of the DELETE.
DeleteAllRestartIdentity ==
  /\ pendingDelete
  /\ ClientFree("results")
  /\ pendingDelete' = FALSE
  /\ IF StatementOk
       THEN /\ rows' = <<>>
            /\ nextId' = 1
            /\ cleared' = TRUE
            /\ accepted' = 0
            /\ reader' = Written(reader)
            /\ resp' = Redirect("results", "POST /delete-all", "/?deleted=1")
       ELSE /\ resp' = Reply("results", "POST /delete-all", 500,
                             "Error deleting votes")
            /\ UNCHANGED <<rows, nextId, cleared, accepted, reader>>
  /\ UNCHANGED <<dbUp, tableExists, usedIds, voteSvc, pool, pendingVotes, hz>>

\* A DELETE that leaves the newest vote in place.
DeleteAllButLast ==
  /\ pendingDelete
  /\ ClientFree("results")
  /\ pendingDelete' = FALSE
  /\ IF StatementOk
       THEN /\ rows' = IF rows = <<>> THEN rows ELSE <<rows[Len(rows)]>>
            /\ cleared' = TRUE
            /\ accepted' = Len(rows')
            /\ reader' = Written(reader)
            /\ resp' = Redirect("results", "POST /delete-all", "/?deleted=1")
       ELSE /\ resp' = Reply("results", "POST /delete-all", 500,
                             "Error deleting votes")
            /\ UNCHANGED <<rows, cleared, accepted, reader>>
  /\ UNCHANGED <<dbUp, tableExists, nextId, usedIds, voteSvc, pool,
                 pendingVotes, hz>>

\* DELETE FROM votes and the continuation of POST /delete-all.
DeleteAll ==
  /\ pendingDelete
  /\ ClientFree("results")
  /\ pendingDelete' = FALSE
  /\ IF StatementOk
       THEN /\ rows' = <<>>
            /\ cleared' = TRUE
            /\ accepted' = 0
            /\ reader' = Written(reader)
            /\ resp' = Redirect("results", "POST /delete-all", "/?deleted=1")
       ELSE /\ resp' = Reply("results", "POST /delete-all", 500,
                             "Error deleting votes")
            /\ UNCHANGED <<rows, cleared, accepted, reader>>
  /\ UNCHANGED <<dbUp, tableExists, nextId, usedIds, voteSvc, pool,
                 pendingVotes, hz>>

\* GET / (kind "html", with its ?deleted flag) or GET /api/results (kind
\* "api") up to the first await.
GetResults(kind, deleted) ==
  /\ reader.pc = "idle"
  /\ reader' = [IdleReader EXCEPT !.pc = "agg", !.kind = kind,
                                  !.deleted = deleted, !.fresh = cleared]
  /\ resp' = NoResp
  /\ UNCHANGED <<dbUp, tableExists, rows, nextId, cleared, accepted, usedIds,
                 voteSvc, pool, pendingVotes, pendingDelete, hz>>

\* A catch that forgets .status(500).
ReadFailedDefaultStatus(r) ==
  [Reply("results", IF r.kind = "api" THEN "GET /api/results" ELSE "GET /",
         200, "Error retrieving results") EXCEPT !.req = r]

\* The catch of a results read.
ReadFailed(r) ==
  [Reply("results", IF r.kind = "api" THEN "GET /api/results" ELSE "GET /",
         500, "Error retrieving results") EXCEPT !.req = r]

\* The GROUP BY statement of a results read.
ReadAggregate ==
  /\ reader.pc = "agg"
  /\ ClientFree("results")
  /\ IF StatementOk
       THEN /\ \E result \in Aggregate(rows) :
                 reader' = [reader EXCEPT !.pc = "total", !.result = result]
            /\ resp' = NoResp
       ELSE /\ reader' = IdleReader
            /\ resp' = ReadFailed(reader)
  /\ UNCHANGED <<dbUp, tableExists, rows, nextId, cleared, accepted, usedIds,
                 voteSvc, pool, pendingVotes, pendingDelete, hz>>

\* The COUNT(*) statement of a results read and the rendering of the answer.
ReadTotal ==
  /\ reader.pc = "total"
  /\ ClientFree("results")
  /\ reader' = IdleReader
  /\ resp' = IF ~StatementOk THEN ReadFailed(reader)
             ELSE IF reader.kind = "api" THEN ApiReply(reader, Total(rows))
             ELSE HtmlReply(reader, Total(rows))
  /\ UNCHANGED <<dbUp, tableExists, rows, nextId, cleared, accepted, usedIds,
                 voteSvc, pool, pendingVotes, pendingDelete, hz>>

(* ---------------------------- liveness checks ------------------------- *)

Listening(svc) == svc = "results" \/ voteSvc = "listening"

\* GET /healthz arrives: pool.connect() is asked for a client.
Healthz(svc) ==
  /\ Listening(svc)
  /\ hz[svc] = "idle"
  /\ hz' = [hz EXCEPT ![svc] = "connecting"]
  /\ resp' = NoResp
  /\ UNCHANGED <<dbUp, tableExists, rows, nextId, cleared, accepted, usedIds,
                 voteSvc, pool, pendingVotes, pendingDelete, reader>>

\* A catch that forgets .status(503).
UnhealthyDefaultStatus(svc) ==
  Reply(svc, "GET /healthz", 200, "unhealthy/disconnected")

\* The catch of GET /healthz.
Unhealthy(svc) == Reply(svc, "GET /healthz", 503, "unhealthy/disconnected")

\* pool.connect() settles: a client is checked out, or the catch answers 503.
HealthzConnect(svc) ==
  /\ hz[svc] = "connecting"
  /\ ClientFree(svc)
  /\ IF dbUp
       THEN /\ pool' = [pool EXCEPT ![svc] = @ + 1]
            /\ hz' = [hz EXCEPT ![svc] = "querying"]
            /\ resp' = NoResp
       ELSE /\ hz' = [hz EXCEPT ![svc] = "idle"]
            /\ resp' = Unhealthy(svc)
            /\ UNCHANGED pool
  /\ UNCHANGED <<dbUp, tableExists, rows, nextId, cleared, accepted, usedIds,
                 voteSvc, pendingVotes, pendingDelete, reader>>

\* SELECT 1 settles: client.release() and 200, or the catch answers 503 with
\* the client still checked out.
HealthzQuery(svc) ==
  /\ hz[svc] = "querying"
  /\ hz' = [hz EXCEPT ![svc] = "idle"]
  /\ IF dbUp
       THEN /\ pool' = [pool EXCEPT ![svc] = @ - 1]
            /\ resp' = Reply(svc, "GET /healthz", 200, "healthy/connected")
       ELSE /\ resp' = Unhealthy(svc)
            /\ UNCHANGED pool
  /\ UNCHANGED <<dbUp, tableExists, rows, nextId, cleared, accepted, usedIds,
                 voteSvc, pendingVotes, pendingDelete, reader>>

\* The legacy GET /health: unconditional.
Health(svc) ==
  /\ Listening(svc)
  /\ resp' = Reply(svc, "GET /health", 200, "ok")
  /\ UNCHANGED <<dbUp, tableExists, rows, nextId, cleared, accepted, usedIds,
                 voteSvc, pool, pendingVotes, pendingDelete, reader, hz>>

(* -------------------------- specifications --------------------------- *)

\* The requests of the two services against the store, with the startup of
\* the vote process and database outages.
Next ==
  \/ DbOutage
  \/ DbRecover
  \/ MigrationConnect
  \/ MigrationQuery
  \/ VoteStop
  \/ VoteStart
  \/ \E success \in BOOLEAN : VoteForm(success)
  \/ \E body \in Bodies : PostVote(body)
  \/ \E option \in Strings : VoteInsert(option)
  \/ PostDeleteAll
  \/ DeleteAll
  \/ \E kind \in {"html", "api"}, deleted \in BOOLEAN :
       (kind = "api" => ~deleted) /\ GetResults(kind, deleted)
  \/ ReadAggregate
  \/ ReadTotal
  \/ \E svc \in Services : Health(svc)

Spec == Init /\ [][Next]_vars

\* The liveness checks of the two services and their pools, with the startup
\* of the vote process and database outages.
NextHealth ==
  \/ DbOutage
  \/ DbRecover
  \/ MigrationConnect
  \/ MigrationQuery
  \/ VoteStop
  \/ VoteStart
  \/ \E svc \in Services : Healthz(svc)
  \/ \E svc \in Services : HealthzConnect(svc)
  \/ \E svc \in Services : HealthzQuery(svc)
  \/ \E svc \in Services : Health(svc)

SpecHealth == Init /\ [][NextHealth]_vars

\* Everything at once.
NextAll == Next \/ NextHealth

SpecAll == Init /\ [][NextAll]_vars

(* ------------------------------ claims -------------------------------- *)

\* The records of table t that hold option o.
Tally(t, o) == Cardinality({i \in 1..Len(t) : t[i].option = o})

\* The body names one of the two configured options.
Configured(body) == body.has /\ body.option \in Options

\* This step settles the INSERT of a POST /vote for option o.
VoteCompletes(o) == pendingVotes'[o] = pendingVotes[o] - 1

\* C1: a POST /vote with a configured option reaches its INSERT, and when the
\* INSERT succeeds the step appends exactly one row with that option (row
\* count +1, that option's tally +1, the rows before it unchanged) and
\* answers with a redirect to /?success=1, whatever else is in flight; so
\* the rows number the submissions redirected since the last DELETE.
C1_SubmitAddsOneRow ==
  /\ [](Len(rows) = accepted)
  /\ [][/\ \A body \in Bodies : (Configured(body) /\ PostVote(body)) =>
             /\ pendingVotes'[body.option] = pendingVotes[body.option] + 1
             /\ resp' = NoResp
        /\ \A o \in Options : (VoteCompletes(o) /\ StatementOk) =>
             /\ Len(rows') = Len(rows) + 1
             /\ SubSeq(rows', 1, Len(rows)) = rows
             /\ rows'[Len(rows')].option = o
             /\ \A x \in Strings :
                  Tally(rows', x) = Tally(rows, x) + (IF x = o THEN 1 ELSE 0)
             /\ resp'.route = "POST /vote"
             /\ resp'.status = 302
             /\ resp'.location = "/?success=1"]_vars

\* A submission is redirected while another one is still in flight, and it
\* is the second one stored.
C1_Witness ==
  /\ resp.route = "POST /vote"
  /\ resp.status = 302
  /\ InFlightVotes >= 1
  /\ Len(rows) >= 2

\* C2: a POST /vote whose option is missing, empty or not exactly one of the
\* two configured options is answered 400 and changes nothing: the table is
\* as before and no INSERT is issued, then or later.
C2_InvalidOptionRejected ==
  /\ [](\A o \in Strings \ Options : pendingVotes[o] = 0)
  /\ [][\A body \in Bodies : (~Configured(body) /\ PostVote(body)) =>
          /\ resp'.route = "POST /vote"
          /\ resp'.status = 400
          /\ pendingVotes' = pendingVotes
          /\ UNCHANGED store]_vars

\* A submission is answered 400 while the table holds votes.
C2_Witness ==
  /\ resp.route = "POST /vote"
  /\ resp.status = 400
  /\ rows # <<>>

RECURSIVE SumPercentages(_)
SumPercentages(r) ==
  IF r = <<>> THEN 0 ELSE r[1].percentage + SumPercentages(Tail(r))

Abs(x) == IF x < 0 THEN -x ELSE x

\* The last step answered GET /api/results with its JSON.
ApiAnswered == resp.route = "GET /api/results" /\ resp.status = 200

\* The last step answered a results read, HTML or JSON.
ReadAnswered ==
  resp.route \in {"GET /", "GET /api/results"} /\ resp.status = 200

\* C3: in every JSON answer of GET /api/results, also when votes or a
\* delete-all land between its two statements, the percentages (in
\* hundredths) sum to 100.00 within one hundredth per entry when the total
\* is above 0, and there are no entries when the total is 0.
C3_PercentagesSumTo100 ==
  ApiAnswered =>
    /\ resp.total > 0 =>
         Abs(SumPercentages(resp.results) - 10000) <= Len(resp.results)
    /\ resp.total = 0 => resp.results = <<>>

\* This step settles the DELETE of a POST /delete-all.
DeleteCompletes == pendingDelete /\ ~pendingDelete'

\* C4: the step of a successful DELETE leaves no row and answers with a
\* redirect to /?deleted=1; and a results read that arrived after a
\* successful DELETE, with no INSERT landing from that DELETE to the read's
\* answer, reports total 0, with the empty-state block in the HTML view and
\* no entries in the JSON.
C4_DeleteAllEmpties ==
  /\ [](ReadAnswered /\ resp.req.fresh =>
          /\ resp.total = 0
          /\ resp.results = <<>>
          /\ resp.route = "GET /" => resp.empty)
  /\ [][(DeleteCompletes /\ StatementOk) =>
          /\ rows' = <<>>
          /\ resp'.route = "POST /delete-all"
          /\ resp'.status = 302
          /\ resp'.location = "/?deleted=1"]_vars

\* Votes were stored, a DELETE removed them, and a read that arrived after it
\* has shown the empty state.
C4_Witness ==
  /\ ReadAnswered
  /\ resp.req.fresh
  /\ resp.route = "GET /"
  /\ resp.empty
  /\ usedIds # {}
  /\ rows = <<>>

\* C5: when no write lands between its two statements, GET /api/results
\* reports the number of stored rows as total and exactly one entry per
\* stored option, with that option's tally as count, the nearest hundredth
\* of count/total*100 as percentage, and counts never increasing along the
\* entries; votes cats, cats, dogs give 3 and [cats 2 66.67, dogs 1 33.33].
C5_CleanReadIsExact ==
  (ApiAnswered /\ ~resp.req.dirty) =>
    LET r == resp.results
        n == Len(resp.results)
    IN  /\ resp.total = Len(rows)
        /\ {r[i].option : i \in 1..n} = {rows[i].option : i \in 1..Len(rows)}
        /\ \A i, j \in 1..n : i # j => r[i].option # r[j].option
        /\ \A i \in 1..n :
             /\ r[i].count = Tally(rows, r[i].option)
             /\ r[i].count > 0
             /\ 2 * Abs(r[i].percentage * resp.total - 10000 * r[i].count)
                  <= resp.total
        /\ \A i, j \in 1..n : i < j => r[i].count >= r[j].count
        /\ [i \in 1..Len(rows) |-> rows[i].option] = <<"cats", "cats", "dogs">>
             => r = <<[option |-> "cats", count |-> 2, percentage |-> 6667],
                      [option |-> "dogs", count |-> 1, percentage |-> 3333]>>

\* The scenario's read: cats, cats, dogs were stored and read undisturbed.
C5_Witness ==
  /\ ApiAnswered
  /\ ~resp.req.dirty
  /\ resp.total = 3
  /\ resp.results = <<[option |-> "cats", count |-> 2, percentage |-> 6667],
                      [option |-> "dogs", count |-> 1, percentage |-> 3333]>>
  /\ [i \in 1..Len(rows) |-> rows[i].option] = <<"cats", "cats", "dogs">>

\* C6: for both services the answer of GET /healthz is 200 healthy/connected
\* when the database answers and 503 unhealthy/disconnected when it does not;
\* pool.connect() leads to SELECT 1 on success and to 503 on failure, and 200
\* is sent only by the step in which SELECT 1 succeeds.
C6_HealthzReflectsStore ==
  /\ [](resp.route = "GET /healthz" =>
          IF dbUp
            THEN resp.status = 200 /\ resp.text = "healthy/connected"
            ELSE resp.status = 503 /\ resp.text = "unhealthy/disconnected")
  /\ [][\A svc \in Services :
          /\ (hz[svc] = "connecting" /\ hz'[svc] # "connecting") =>
               IF dbUp
                 THEN hz'[svc] = "querying" /\ resp' = NoResp
                 ELSE /\ hz'[svc] = "idle"
                      /\ resp'.route = "GET /healthz"
                      /\ resp'.svc = svc
                      /\ resp'.status = 503
          /\ (hz[svc] = "querying" /\ hz'[svc] # "querying") =>
               /\ hz'[svc] = "idle"
               /\ resp'.route = "GET /healthz"
               /\ resp'.svc = svc
               /\ resp'.status = IF dbUp THEN 200 ELSE 503
          /\ (resp'.route = "GET /healthz" /\ resp'.svc = svc
                /\ resp'.status = 200) =>
               hz[svc] = "querying" /\ dbUp]_vars

\* An outage after the client was acquired: SELECT 1 failed and the answer
\* is 503.
C6_Witness ==
  /\ resp.route = "GET /healthz"
  /\ resp.status = 503
  /\ ~dbUp
  /\ hz[resp.svc] = "idle"
  /\ pool[resp.svc] >= 1

\* C7: every stored row holds one of the two configured options, the ids of
\* the stored rows increase strictly in insertion order, and a row entering
\* the table gets an id above every id a row ever had, also after a DELETE.
C7_OptionsAndIds ==
  /\ [](/\ \A i \in 1..Len(rows) :
             rows[i].option \in Options /\ rows[i].id \in usedIds
        /\ \A i, j \in 1..Len(rows) : i < j => rows[i].id < rows[j].id)
  /\ [][\A i \in 1..Len(rows') :
          (i > Len(rows) \/ rows'[i] # rows[i]) =>
            \A u \in usedIds : u < rows'[i].id]_vars

\* Votes for both options stored after a DELETE removed the first vote.
C7_Witness ==
  /\ Len(rows) = 2
  /\ rows[1].id = 2
  /\ rows[1].option # rows[2].option

\* C8: the vote process listens only once CREATE TABLE IF NOT EXISTS has
\* succeeded in it; a failure of the migration's connect or statement ends
\* the process, and a process that is not listening has taken no request;
\* and the migration leaves the rows, and a table that exists, as they are.
C8_ListenAfterMigration ==
  /\ [](voteSvc = "listening" => tableExists)
  /\ [](voteSvc # "listening" =>
          InFlightVotes = 0 /\ hz["vote"] = "idle" /\ resp.svc # "vote")
  /\ [][/\ (voteSvc # "listening" /\ voteSvc' = "listening") =>
             voteSvc = "migrating" /\ dbUp /\ tableExists'
        /\ (voteSvc \in {"starting", "migrating"} /\ voteSvc' # voteSvc
              /\ ~dbUp) => voteSvc' = "exited"
        /\ (voteSvc = "starting" /\ voteSvc' # voteSvc /\ dbUp) =>
             voteSvc' = "migrating"
        /\ (voteSvc \in {"starting", "migrating"} /\ voteSvc' # voteSvc) =>
             /\ rows' = rows
             /\ nextId' = nextId
             /\ tableExists => tableExists']_vars

\* A later start of the vote process: its migration runs against a table
\* that exists and holds votes.
C8_Witness ==
  /\ voteSvc = "migrating"
  /\ dbUp
  /\ tableExists
  /\ rows # <<>>

\* This step settles a statement of the results read in flight.
ReadStep == reader.pc \in {"agg", "total"} /\ reader'.pc # reader.pc

\* The step answers 500 on the route and leaves the table as it was.
Failed500(route) ==
  /\ resp'.route = route
  /\ resp'.status = 500
  /\ UNCHANGED store

\* C9: the step in which the statement of POST /vote, POST /delete-all,
\* GET / or GET /api/results fails answers 500, leaves the table as it was
\* and ends the request: nothing of it stays in flight to run the statement
\* again or to answer a second time.
C9_StoreFailureIs500 ==
  [][~StatementOk =>
       /\ \A o \in Options : VoteCompletes(o) =>
            /\ Failed500("POST /vote")
            /\ InFlightVotes' = InFlightVotes - 1
       /\ DeleteCompletes => Failed500("POST /delete-all")
       /\ ReadStep =>
            /\ Failed500(IF reader.kind = "api" THEN "GET /api/results"
                         ELSE "GET /")
            /\ reader' = IdleReader]_vars

\* The COUNT statement of GET /api/results failed after its GROUP BY
\* statement had succeeded, with votes in the table.
C9_Witness ==
  /\ resp.route = "GET /api/results"
  /\ resp.status = 500
  /\ resp.req.pc = "total"
  /\ rows # <<>>

\* This step is one of the vote process.
VoteServiceStep ==
  \/ pendingVotes' # pendingVotes
  \/ voteSvc' # voteSvc
  \/ hz'["vote"] # hz["vote"]
  \/ resp'.svc = "vote"

\* C10: the rows change only by a POST /vote appending one row behind the
\* others, which stay as they are, or by the DELETE of POST /delete-all; the
\* form, the results reads, the liveness checks and GET /health leave them
\* unchanged, and no step of the vote process removes or alters a row.
C10_RowsLeaveOnlyByDeleteAll ==
  [][/\ rows' # rows =>
          \/ /\ \E o \in Options : VoteCompletes(o)
             /\ Len(rows') = Len(rows) + 1
             /\ SubSeq(rows', 1, Len(rows)) = rows
          \/ DeleteCompletes /\ rows' = <<>>
     /\ (\/ resp'.route \in {"GET /", "GET /api/results", "GET /healthz",
                             "GET /health"}
         \/ reader' # reader /\ reader'.pc # "idle" /\ reader'.pc # reader.pc
         \/ hz' # hz) => rows' = rows
     /\ VoteServiceStep =>
          /\ Len(rows') >= Len(rows)
          /\ SubSeq(rows', 1, Len(rows)) = rows]_vars

\* The vote service's liveness check is answered while votes are stored and
\* a results read is in flight.
C10_Witness ==
  /\ resp.route = "GET /healthz"
  /\ resp.svc = "vote"
  /\ Len(rows) >= 2
  /\ reader.pc = "total"

\* C11: when GET /healthz has been answered, on the healthy path as on the
\* path where SELECT 1 fails, the client it acquired is back in the pool: the
\* answering service has no client checked out, so that a later liveness
\* check or migration can acquire one.
C11_HealthzReleasesClient ==
  resp.route = "GET /healthz" =>
    pool[resp.svc] = 0 /\ ClientFree(resp.svc)

====
